---- MODULE Spec2Model ----
(***************************************************************************)
(* Model of api/euler-stats.py: the Flask handler handle_request and the   *)
(* fetch-and-parse function get_euler_stats.                               *)
(*                                                                         *)
(* A Python str is a sequence of characters, each character a one-element  *)
(* TLA+ string.  The character U+00B2 (SUPERSCRIPT TWO) is written "sup2". *)
(* An optional value is a sequence of length at most one: None is <<>>     *)
(* and a present value x is Some(x).                                       *)
(***************************************************************************)
EXTENDS Integers, Sequences, FiniteSets, TLC

VARIABLES pc, username, outcome, upstreamCalls, result, response, prev

vars == <<pc, username, outcome, upstreamCalls, result, response, prev>>

None == <<>>
Some(x) == <<x>>
Get(o) == o[1]

(***************************************************************************)
(* Bounds of the model.                                                    *)
(***************************************************************************)
\* Largest number of comma-separated fields on the first line of a payload.
MaxFields == 5
\* The same, for the specification that compares two consecutive requests.
PairMaxFields == 3

(***************************************************************************)
(* Characters and the str methods the code uses.                           *)
(***************************************************************************)
DecimalChars == {"0", "1", "2", "3", "4", "5", "6", "7", "8", "9"}

\* Characters of Unicode Numeric_Type=Digit that are not decimal digits.
SuperscriptChars == {"sup2"}

WhitespaceChars == {" ", "\t", "\n", "\r"}

DigitVal(c) ==
  CASE c = "0" -> 0 [] c = "1" -> 1 [] c = "2" -> 2 [] c = "3" -> 3
    [] c = "4" -> 4 [] c = "5" -> 5 [] c = "6" -> 6 [] c = "7" -> 7
    [] c = "8" -> 8 [] c = "9" -> 9

\* str.strip(): drop leading and trailing whitespace.
RECURSIVE LStrip(_)
LStrip(s) ==
  IF s # <<>> /\ Head(s) \in WhitespaceChars THEN LStrip(Tail(s)) ELSE s

RECURSIVE RStrip(_)
RStrip(s) ==
  IF s # <<>> /\ s[Len(s)] \in WhitespaceChars
    THEN RStrip(SubSeq(s, 1, Len(s) - 1))
    ELSE s

Strip(s) == RStrip(LStrip(s))

\* str.split(sep) for a one-character sep: always at least one piece.
RECURSIVE SplitAcc(_, _, _, _)
SplitAcc(s, sep, cur, acc) ==
  IF s = <<>> THEN Append(acc, cur)
  ELSE IF Head(s) = sep THEN SplitAcc(Tail(s), sep, <<>>, Append(acc, cur))
  ELSE SplitAcc(Tail(s), sep, Append(cur, Head(s)), acc)

Split(s, sep) == SplitAcc(s, sep, <<>>, <<>>)

\* str.isdigit(): non-empty and every character is a digit character;
\* superscript digits count as digits.
IsDigit(s) ==
  /\ s # <<>>
  /\ \A i \in 1..Len(s) : s[i] \in DecimalChars \cup SuperscriptChars

\* The digits part of an int() literal: decimal digits, single underscores
\* allowed between two digits only.
DigitsOk(d) ==
  /\ d # <<>>
  /\ \A i \in 1..Len(d) : d[i] \in DecimalChars \cup {"_"}
  /\ d[1] # "_"
  /\ d[Len(d)] # "_"
  /\ \A i \in 1..(Len(d) - 1) : ~(d[i] = "_" /\ d[i + 1] = "_")

RECURSIVE DigitsVal(_, _)
DigitsVal(d, acc) ==
  IF d = <<>> THEN acc
  ELSE IF Head(d) = "_" THEN DigitsVal(Tail(d), acc)
  ELSE DigitsVal(Tail(d), 10 * acc + DigitVal(Head(d)))

\* int(s) succeeds: optional surrounding whitespace, optional sign, digits.
IntOk(s) ==
  LET t == Strip(s)
      d == IF t # <<>> /\ Head(t) \in {"+", "-"} THEN Tail(t) ELSE t
  IN  DigitsOk(d)

\* int(s) when it succeeds.
IntVal(s) ==
  LET t == Strip(s)
      neg == t # <<>> /\ Head(t) = "-"
      d == IF t # <<>> /\ Head(t) \in {"+", "-"} THEN Tail(t) ELSE t
      v == DigitsVal(d, 0)
  IN  IF neg THEN 0 - v ELSE v

(***************************************************************************)
(* Text shown to the user.  A message is the sequence of its words, so     *)
(* that the handler's substring test can be computed on it.                *)
(***************************************************************************)
NoDataMsg == <<"No", "data", "found", "in", "profile", "file">>
ParseErrorMsg == <<"Could", "not", "parse", "stats">>
NoStatsMsg == <<"Could", "not", "find", "stats">>
NotFoundMsg(u) == <<"User", "'", u, "'", "not", "found">>
RequestFailedMsg == <<"Project", "Euler", "request", "failed">>
ConnectMsg == <<"Could", "not", "connect", "to", "Project", "Euler">>
InternalMsg == <<"An", "internal", "error", "occurred">>
UsernameRequiredMsg == <<"Username", "required", "(?username=...)">>

SvgContentType == "image/svg+xml"
CacheControlValue ==
  "public, max-age=3600, s-maxage=3600, stale-while-revalidate=1800"

\* str.lower() on one word of a message.
LowerWord(w) ==
  CASE w = "No" -> "no" [] w = "Could" -> "could" [] w = "User" -> "user"
    [] w = "Project" -> "project" [] w = "Euler" -> "euler"
    [] w = "An" -> "an" [] w = "Username" -> "username"
    [] w = "Not" -> "not" [] w = "Found" -> "found"
    [] OTHER -> w

Lower(msg) == [i \in 1..Len(msg) |-> LowerWord(msg[i])]

\* needle in msg, for a needle made of whole words.
Contains(msg, needle) ==
  \E i \in 0..(Len(msg) - Len(needle)) :
    \A j \in 1..Len(needle) : msg[i + j] = needle[j]

(***************************************************************************)
(* get_euler_stats                                                         *)
(***************************************************************************)
\* Variant of RaisesForStatus: only 5xx raises.
RaisesForServerErrorOnly(status) == 500 <= status /\ status < 600

\* Response.raise_for_status(): HTTPError for 4xx and 5xx only.
RaisesForStatus(status) == 400 <= status /\ status < 600

\* lines 24-25: content = response.text.strip(); lines = content.split('\n')
LinesOf(body) == Split(Strip(body), "\n")

\* lines 32-33: the first line split on ',' with every field stripped.
PartsOf(body) ==
  LET raw == Split(LinesOf(body)[1], ",")
  IN  [i \in 1..Len(raw) |-> Strip(raw[i])]

\* lines 42-44: the fields of parts[1:] that pass isdigit(), in order.
DigitParts(parts) ==
  LET Digit(p) == IsDigit(p) IN SelectSeq(Tail(parts), Digit)

\* line 44 raises ValueError when int() rejects a field isdigit() accepted.
ScanRaises(parts) ==
  \E i \in 1..Len(DigitParts(parts)) : ~IntOk(DigitParts(parts)[i])

PotentialNumbers(parts) ==
  [i \in 1..Len(DigitParts(parts)) |-> IntVal(DigitParts(parts)[i])]

\* Variant of ScanSuffices: the comparison is strict.
ScanSufficesStrict(parts) == Len(PotentialNumbers(parts)) > 2

\* line 46: the scan found enough numbers.
ScanSuffices(parts) == Len(PotentialNumbers(parts)) >= 2

\* lines 55-56: int(parts[3]) then int(parts[4]); the exception raised, or None.
FallbackRaises(parts) ==
  IF Len(parts) < 4 THEN Some("IndexError")
  ELSE IF ~IntOk(parts[4]) THEN Some("ValueError")
  ELSE IF Len(parts) < 5 THEN Some("IndexError")
  ELSE IF ~IntOk(parts[5]) THEN Some("ValueError")
  ELSE None

\* Variant of Failure: the exception text is appended to the message shown.
FailureShowsException(msg, logged) ==
  [stats |-> None,
   error |-> Some(IF Len(logged) >= 3 /\ logged[1] # "HTTP Error"
                    THEN Append(msg, logged[3])
                    ELSE msg),
   path |-> "none", log |-> logged]

Failure(msg, logged) ==
  [stats |-> None, error |-> Some(msg), path |-> "none", log |-> logged]

Success(u, solved, lvl, via) ==
  [stats |-> Some([username |-> u, solved_count |-> solved, level |-> lvl]),
   error |-> None, path |-> via, log |-> <<>>]

\* lines 24-74: the body of a response that raise_for_status() let through.
\* The test of lines 62-63 (NoStatsMsg) never succeeds: both values are set
\* on every path that does not raise.
ParseBody(u, body) ==
  LET lines == LinesOf(body)
      parts == PartsOf(body)
      pn    == PotentialNumbers(parts)
  IN  IF lines = <<>> THEN Failure(NoDataMsg, <<>>)
      ELSE IF ScanRaises(parts)
        THEN Failure(ParseErrorMsg, <<"Parsing error", u, "ValueError", parts>>)
      ELSE IF ScanSuffices(parts)
        THEN Success(u, pn[1], pn[2], "scan")
      ELSE IF FallbackRaises(parts) # None
        THEN Failure(ParseErrorMsg,
                     <<"Parsing error", u, Get(FallbackRaises(parts)), parts>>)
      ELSE Success(u, IntVal(parts[4]), IntVal(parts[5]), "fallback")

\* lines 76-81: except requests.exceptions.HTTPError
HTTPErrorResult(u, status) ==
  IF status = 404
    THEN Failure(NotFoundMsg(u), <<>>)
    ELSE Failure(RequestFailedMsg, <<"HTTP Error", u, status>>)

\* get_euler_stats(username), given what requests.get() did.
GetEulerStats(u, o) ==
  CASE o.kind = "RequestException" ->
         Failure(ConnectMsg, <<"Request Exception", u, o.detail>>)
    [] o.kind = "Exception" ->
         Failure(InternalMsg, <<"Unexpected error", u, o.detail>>)
    [] o.kind = "response" ->
         IF RaisesForStatus(o.status)
           THEN HTTPErrorResult(u, o.status)
           ELSE ParseBody(u, o.body)

(***************************************************************************)
(* handle_request                                                          *)
(***************************************************************************)
\* Variant of Falsy: only a missing parameter is rejected.
FalsyOnlyNone(u) == u = None

\* line 100: `not username` holds for a missing and for an empty parameter.
Falsy(u) == u = None \/ u = Some("")

\* template.render(...): the document is determined by the arguments.
Render(args) == [template |-> "card_template.svg", args |-> args]

\* Variant of StatusForError: the test looks for "not" alone.
StatusForErrorAnyNot(msg) ==
  IF Contains(Lower(msg), <<"not">>) THEN 404 ELSE 500

\* line 111
StatusForError(msg) ==
  IF Contains(Lower(msg), <<"not", "found">>) THEN 404 ELSE 500

\* lines 101-105
BadRequestResponse ==
  [svg |-> Render([error |-> UsernameRequiredMsg]),
   headers |-> [ContentType |-> SvgContentType],
   status_code |-> 400]

\* Variant of MainHeaders: the Cache-Control header is left out.
MainHeadersNoCache == [ContentType |-> SvgContentType]

\* lines 116-120: the headers set on the main path.
MainHeaders ==
  [ContentType |-> SvgContentType, CacheControl |-> CacheControlValue]

\* lines 109-121
MainResponse(r) ==
  IF r.error # None
    THEN [svg |-> Render([error |-> Get(r.error)]),
          headers |-> MainHeaders,
          status_code |-> StatusForError(Get(r.error))]
    ELSE [svg |-> Render(Get(r.stats)),
          headers |-> MainHeaders,
          status_code |-> 200]

(***************************************************************************)
(* What the environment can do: the query parameter of a request and the   *)
(* result of requests.get().                                               *)
(***************************************************************************)
Usernames == {None, Some(""), Some("alice"), Some("bob")}

\* Fields a first line is built from: text, a number, a padded number, a
\* signed number, a superscript digit.
Fields ==
  {<<"x">>, <<"1", "2">>, <<" ", "7">>, <<"-", "5">>, <<"sup2">>}

PairFields == {<<"x">>, <<"1", "2">>, <<"sup2">>}

\* What follows the first line: nothing, trailing whitespace, a second line.
Suffixes == {<<>>, <<" ", "\n">>, <<"\r", "\n", "9", ",", "9">>}

RECURSIVE Join(_)
Join(fs) ==
  IF fs = <<>> THEN <<>>
  ELSE IF Len(fs) = 1 THEN fs[1]
  ELSE fs[1] \o <<",">> \o Join(Tail(fs))

FieldLists(F, n) == UNION {[1..k -> F] : k \in 0..n}

Bodies == {Join(fs) \o suf : fs \in FieldLists(Fields, MaxFields), suf \in Suffixes}

PairBodies == {Join(fs) : fs \in FieldLists(PairFields, PairMaxFields)}

\* Bodies sent with an error status: an error page and a well-formed profile.
ErrorBodies ==
  {<<"N", "o", "t", " ", "F", "o", "u", "n", "d">>,
   <<"u", ",", "1", "2", ",", "7">>}

PassStatuses == {200, 304}
ErrorStatuses == {403, 404, 500}

Response(status, body) ==
  [kind |-> "response", status |-> status, body |-> body, detail |-> ""]

Raised(kind, detail) ==
  [kind |-> kind, status |-> 0, body |-> <<>>, detail |-> detail]

NoOutcome == [kind |-> "none", status |-> 0, body |-> <<>>, detail |-> ""]

ExceptionOutcomes ==
  {Raised("RequestException", d) : d \in {"timed out", "connection refused"}}
    \cup {Raised("Exception", d) : d \in {"boom", "bang"}}

Outcomes(bodies) ==
  {Response(st, b) : st \in PassStatuses, b \in bodies}
    \cup {Response(st, b) : st \in ErrorStatuses, b \in ErrorBodies}
    \cup ExceptionOutcomes

(***************************************************************************)
(* The state machine: one request at a time, from the query parameter to   *)
(* the response.                                                           *)
(***************************************************************************)
Init ==
  /\ pc = "idle"
  /\ username = None
  /\ outcome = NoOutcome
  /\ upstreamCalls = 0
  /\ result = None
  /\ response = None
  /\ prev = None

\* line 95: a request arrives with its query parameter.
Arrive(u) ==
  /\ pc \in {"idle", "done"}
  /\ pc' = "handling"
  /\ username' = u
  /\ outcome' = NoOutcome
  /\ upstreamCalls' = 0
  /\ result' = None
  /\ response' = None

ReceiveRequest == \E u \in Usernames : Arrive(u) /\ UNCHANGED prev

\* What the previous request was and what its user saw.
Summary ==
  [username |-> username, outcome |-> outcome, shown |-> Get(response).svg.args]

ReceiveNextRequest ==
  \E u \in Usernames :
    /\ Arrive(u)
    /\ prev' = IF pc = "done" THEN Some(Summary) ELSE prev

\* lines 100-105
MissingUsername ==
  /\ pc = "handling"
  /\ Falsy(username)
  /\ response' = Some(BadRequestResponse)
  /\ pc' = "done"
  /\ UNCHANGED <<username, outcome, upstreamCalls, result, prev>>

\* lines 107, 19-21: the username check passed; requests.get() is issued.
Fetch(bodies) ==
  /\ pc = "handling"
  /\ ~Falsy(username)
  /\ \E o \in Outcomes(bodies) : outcome' = o
  /\ upstreamCalls' = upstreamCalls + 1
  /\ pc' = "fetched"
  /\ UNCHANGED <<username, result, response, prev>>

CallUpstream == Fetch(Bodies)

CallUpstreamPair == Fetch(PairBodies)

\* lines 22-87: get_euler_stats returns (stats, error_message).
GetEulerStatsReturns ==
  /\ pc = "fetched"
  /\ result' = Some(GetEulerStats(Get(username), outcome))
  /\ pc' = "returned"
  /\ UNCHANGED <<username, outcome, upstreamCalls, response, prev>>

\* lines 109-121
Respond ==
  /\ pc = "returned"
  /\ response' = Some(MainResponse(Get(result)))
  /\ pc' = "done"
  /\ UNCHANGED <<username, outcome, upstreamCalls, result, prev>>

Next ==
  \/ ReceiveRequest
  \/ MissingUsername
  \/ CallUpstream
  \/ GetEulerStatsReturns
  \/ Respond

Spec == Init /\ [][Next]_vars

\* The same handler, remembering the previous request next to the current one.
NextPair ==
  \/ ReceiveNextRequest
  \/ MissingUsername
  \/ CallUpstreamPair
  \/ GetEulerStatsReturns
  \/ Respond

SpecPair == Init /\ [][NextPair]_vars

(***************************************************************************)
(* Vocabulary of the properties.                                           *)
(***************************************************************************)
\* get_euler_stats has returned for the current request.
Returned == pc \in {"returned", "done"} /\ result # None

Stats == Get(result).stats
ErrorMessage == Get(result).error

MissingOrEmpty(u) == u \in {<<>>, <<"">>}

Is2xx(status) == 200 <= status /\ status <= 299

\* The upstream answered 2xx, so its body is the payload.
GotPayload == Returned /\ outcome.kind = "response" /\ Is2xx(outcome.status)

\* The trimmed fields of the payload's first line.
Parts == PartsOf(outcome.body)

\* A field composed entirely of decimal digits.
DecimalOnly(f) == f # <<>> /\ \A i \in 1..Len(f) : f[i] \in DecimalChars

\* The decimal-only fields after the username field, left to right.
DecimalFields == SelectSeq(Tail(Parts), DecimalOnly)

\* The value of a decimal-only field.
RECURSIVE DecimalValue(_)
DecimalValue(f) ==
  IF f = <<>> THEN 0
  ELSE 10 * DecimalValue(SubSeq(f, 1, Len(f) - 1)) + DigitVal(f[Len(f)])

\* A field Python's int() accepts, and its value: optional sign, then digits.
SignedOk(f) ==
  \/ DecimalOnly(f)
  \/ Len(f) >= 2 /\ f[1] \in {"+", "-"} /\ DecimalOnly(Tail(f))

SignedValue(f) ==
  IF DecimalOnly(f) THEN DecimalValue(f)
  ELSE IF f[1] = "-" THEN 0 - DecimalValue(Tail(f))
  ELSE DecimalValue(Tail(f))

StatsOf(u, solved, lvl) ==
  <<[username |-> u, solved_count |-> solved, level |-> lvl]>>

(***************************************************************************)
(* C1: for every 2xx payload whose first line has at least two digit-only  *)
(* fields after the username field, get_euler_stats returns Stats with     *)
(* solved_count the first and level the second such field.                 *)
(***************************************************************************)
C1_FirstTwoDigitFields ==
  (GotPayload /\ Len(DecimalFields) >= 2) =>
    Stats = StatsOf(username[1], DecimalValue(DecimalFields[1]),
                    DecimalValue(DecimalFields[2]))

(***************************************************************************)
(* C2: the response status is 200 exactly when get_euler_stats returned    *)
(* Stats, 400 exactly when the username is missing or empty, 404 exactly   *)
(* when the upstream answered 404, and 500 in every other case.            *)
(***************************************************************************)
C2_StatusByOutcome ==
  pc = "done" =>
    LET st == Get(response).status_code
        missing == MissingOrEmpty(username)
        gotStats == result # None /\ Stats # <<>>
        upstream404 ==
          ~missing /\ outcome.kind = "response" /\ outcome.status = 404
    IN  /\ st \in {200, 400, 404, 500}
        /\ st = 200 <=> gotStats
        /\ st = 400 <=> missing
        /\ st = 404 <=> upstream404
        /\ st = 500 <=> (~gotStats /\ ~missing /\ ~upstream404)

C2_Witness ==
  /\ pc = "done"
  /\ outcome.kind = "response"
  /\ outcome.status = 200
  /\ Get(response).status_code = 500

(***************************************************************************)
(* C3: with a missing or empty username the request is answered 400 with   *)
(* an error image and no upstream request is made; an upstream request is  *)
(* issued only while handling a request whose username check passed.       *)
(***************************************************************************)
C3_NoUpstreamWithoutUsername ==
  /\ [](MissingOrEmpty(username) =>
          /\ upstreamCalls = 0
          /\ outcome.kind = "none"
          /\ pc = "done" =>
               /\ Get(response).status_code = 400
               /\ DOMAIN Get(response).svg.args = {"error"})
  /\ [][(upstreamCalls' > upstreamCalls \/ outcome' \notin {outcome, NoOutcome}) =>
          /\ pc = "handling"
          /\ ~MissingOrEmpty(username)
          /\ username' = username]_vars

C3_Witness ==
  /\ pc = "done"
  /\ username = <<"">>
  /\ Get(response).status_code = 400
  /\ upstreamCalls = 0

(***************************************************************************)
(* C4: every upstream response whose status is not 2xx is an error and its *)
(* body is never parsed: 404 gives the not-found error, every other        *)
(* non-2xx status the generic request-failed error.                        *)
(***************************************************************************)
C4_Non2xxIsError ==
  (Returned /\ outcome.kind = "response" /\ ~Is2xx(outcome.status)) =>
    /\ Stats = <<>>
    /\ ErrorMessage =
         IF outcome.status = 404
           THEN <<<<"User", "'", username[1], "'", "not", "found">>>>
           ELSE <<<<"Project", "Euler", "request", "failed">>>>

\* C4 as amended: the statuses classified as errors are the 4xx and 5xx ones.
C4_ClientOrServerErrorIsError ==
  (Returned /\ outcome.kind = "response"
     /\ 400 <= outcome.status /\ outcome.status <= 599) =>
    /\ Stats = <<>>
    /\ ErrorMessage =
         IF outcome.status = 404
           THEN <<<<"User", "'", username[1], "'", "not", "found">>>>
           ELSE <<<<"Project", "Euler", "request", "failed">>>>

C4_Witness ==
  /\ Returned
  /\ outcome.kind = "response"
  /\ outcome.status = 403
  /\ outcome.body = <<"u", ",", "1", "2", ",", "7">>
  /\ Stats = <<>>

(***************************************************************************)
(* C5: in every Stats value returned, solved_count and level are           *)
(* non-negative.                                                           *)
(***************************************************************************)
C5_StatsNonNegative ==
  (Returned /\ Stats # <<>>) =>
    Stats[1].solved_count >= 0 /\ Stats[1].level >= 0

(***************************************************************************)
(* C6: with fewer than two digit-only fields after the username field,     *)
(* solved_count is int(parts[3]) and level is int(parts[4]); if either     *)
(* index is out of range or either field is not an integer, the result is  *)
(* the parse-failure error and no Stats.                                   *)
(***************************************************************************)
C6_PositionalFallback ==
  (GotPayload /\ Len(DecimalFields) < 2) =>
    IF Len(Parts) >= 5 /\ SignedOk(Parts[4]) /\ SignedOk(Parts[5])
      THEN Stats = StatsOf(username[1], SignedValue(Parts[4]),
                           SignedValue(Parts[5]))
      ELSE Stats = <<>> /\ ErrorMessage = <<<<"Could", "not", "parse", "stats">>>>

(***************************************************************************)
(* C7: a 2xx answer with an empty or whitespace-only body gives the        *)
(* "no data found" parse failure, and the request is answered 500.         *)
(***************************************************************************)
C7_EmptyBodyNoData ==
  (GotPayload /\ \A i \in 1..Len(outcome.body) :
                    outcome.body[i] \in {" ", "\t", "\n", "\r"}) =>
    /\ Stats = <<>>
    /\ ErrorMessage = <<<<"No", "data", "found", "in", "profile", "file">>>>
    /\ pc = "done" => Get(response).status_code = 500

(***************************************************************************)
(* C8: every response has content type image/svg+xml and carries the       *)
(* Cache-Control header.                                                   *)
(***************************************************************************)
C8_EveryResponseCached ==
  pc = "done" =>
    /\ Get(response).headers.ContentType = "image/svg+xml"
    /\ "CacheControl" \in DOMAIN Get(response).headers
    /\ Get(response).headers.CacheControl =
         "public, max-age=3600, s-maxage=3600, stale-while-revalidate=1800"

\* C8 as amended: every response has content type image/svg+xml; every
\* response but the 400 one carries the Cache-Control header, and the 400
\* response carries none.
C8_ResponsesCachedExcept400 ==
  pc = "done" =>
    /\ Get(response).headers.ContentType = "image/svg+xml"
    /\ IF Get(response).status_code = 400
         THEN DOMAIN Get(response).headers = {"ContentType"}
         ELSE /\ DOMAIN Get(response).headers = {"ContentType", "CacheControl"}
              /\ Get(response).headers.CacheControl =
                   "public, max-age=3600, s-maxage=3600, stale-while-revalidate=1800"

C8_Witness ==
  /\ pc = "done"
  /\ Get(response).status_code = 400
  /\ "CacheControl" \notin DOMAIN Get(response).headers

(***************************************************************************)
(* C9: the error text shown depends only on the error class and the        *)
(* username: two failed requests with the same username and error class    *)
(* whose upstream results differ in body or exception text only show the   *)
(* same text.                                                              *)
(***************************************************************************)
ErrorClass(u, o) ==
  IF MissingOrEmpty(u) THEN "MissingInput"
  ELSE IF o.kind = "RequestException" THEN "UpstreamUnreachable"
  ELSE IF o.kind = "Exception" THEN "InternalError"
  ELSE IF o.status = 404 THEN "NotFound"
  ELSE IF 400 <= o.status /\ o.status <= 599 THEN "InternalError"
  ELSE "ParseFailure"

ShowsError(shown) == DOMAIN shown = {"error"}

\* The current request and the previous one failed alike.
FailedAlike ==
  /\ pc = "done"
  /\ prev # None
  /\ ShowsError(Get(response).svg.args)
  /\ ShowsError(prev[1].shown)
  /\ prev[1].username = username
  /\ ErrorClass(prev[1].username, prev[1].outcome) = ErrorClass(username, outcome)
  /\ prev[1].outcome.kind = outcome.kind

C10_FallbackNeedsSignedField ==
  (Returned /\ outcome.kind = "response" /\ Is2xx(outcome.status)) =>
    /\ ( /\ Len(SelectSeq(Tail(Parts), IsDigit)) < 2
         /\ \A i \in 1..Len(Parts) : IsDigit(Parts[i]) \/ ~IntOk(Parts[i]) )
         => (Stats = <<>> /\ ErrorMessage = <<ParseErrorMsg>>)
    /\ (Stats # <<>> /\ Get(result).path = "fallback")
         => /\ Len(Parts) >= 5
            /\ \E i \in {4, 5} : IntOk(Parts[i]) /\ ~IsDigit(Parts[i])

C10_Witness ==
  /\ Returned
  /\ Stats # <<>>
  /\ Get(result).path = "fallback"

====
